---- MODULE Spec2Model ----
\* Dynamical-friction hardening rate (evolve_lzk/dynamical_friction.py):
\* Dynamical_Friction.harden and its helpers _dvdt_full, _dvdt_attenuated and
\* _vel_circ, evaluated over numpy arrays.
\*
\* Floating-point numbers are modelled as fixed-point values with the IEEE
\* special values kept apart: a float is [k |-> "fin", v |-> n] (the number
\* n / Scale), [k |-> "inf", v |-> s] (s = 1 or -1) or [k |-> "nan", v |-> 0].
\* An ndarray is [k |-> "arr", v |-> <<float, ...>>].  Array objects live in a
\* heap (a sequence of arrays indexed by object id), so that an in-place
\* statement acts on the object its target names.
EXTENDS Integers, Sequences, FiniteSets, TLC

\* ------------------------------------------------------------------------
\* Bounds and constants

\* Number of binaries in the ensemble (length of every input array).
NumBin == 2

\* Calls of harden followed between two changes of the attributes.
MaxCalls == 2

\* Fixed-point resolution of a float: the number x is stored as x * Scale.
Scale == 100

\* Class attributes of Dynamical_Friction (times Scale) and imported units.
COULOMB_LOGARITHM == 1500
MSTAR == 60
NWTG == 100
MSOL == 100

\* ------------------------------------------------------------------------
\* Floats

Fin(n) == [k |-> "fin", v |-> n]
NaN == [k |-> "nan", v |-> 0]
Inf(s) == [k |-> "inf", v |-> s]

Sgn(n) == IF n > 0 THEN 1 ELSE IF n < 0 THEN -1 ELSE 0
Abs(n) == IF n < 0 THEN -n ELSE n

\* Sign of a float that is not NaN.
FSign(x) == Sgn(x.v)

IsFinite(x) == x.k = "fin"

FNeg(x) == IF x.k = "nan" THEN NaN ELSE [k |-> x.k, v |-> -x.v]

FAdd(x, y) ==
    IF x.k = "nan" \/ y.k = "nan" THEN NaN
    ELSE IF x.k = "inf" /\ y.k = "inf" THEN (IF x.v = y.v THEN x ELSE NaN)
    ELSE IF x.k = "inf" THEN x
    ELSE IF y.k = "inf" THEN y
    ELSE Fin(x.v + y.v)

FSub(x, y) == FAdd(x, FNeg(y))

FMul(x, y) ==
    IF x.k = "nan" \/ y.k = "nan" THEN NaN
    ELSE IF x.k = "inf" \/ y.k = "inf"
         THEN (IF FSign(x) * FSign(y) = 0 THEN NaN ELSE Inf(FSign(x) * FSign(y)))
    ELSE Fin(FSign(x) * FSign(y) * ((Abs(x.v) * Abs(y.v)) \div Scale))

\* numpy true division: x/0 is +-inf (0/0 is nan) with a warning, no exception.
FDiv(x, y) ==
    IF x.k = "nan" \/ y.k = "nan" THEN NaN
    ELSE IF x.k = "inf"
         THEN (IF y.k = "inf" THEN NaN
               ELSE Inf(x.v * (IF y.v < 0 THEN -1 ELSE 1)))
    ELSE IF y.k = "inf" THEN Fin(0)
    ELSE IF y.v = 0 THEN (IF x.v = 0 THEN NaN ELSE Inf(Sgn(x.v)))
    ELSE Fin(FSign(x) * FSign(y) * ((Abs(x.v) * Scale) \div Abs(y.v)))

FSquare(x) == FMul(x, x)

FFabs(x) == IF x.k = "nan" THEN NaN ELSE [k |-> x.k, v |-> Abs(x.v)]

\* x < y; every comparison with NaN is False.
FLess(x, y) ==
    IF x.k = "nan" \/ y.k = "nan" THEN FALSE
    ELSE IF x.k = "inf" THEN x.v < 0 /\ ~(y.k = "inf" /\ y.v < 0)
    ELSE IF y.k = "inf" THEN y.v > 0
    ELSE x.v < y.v

\* np.maximum propagates NaN.
FMaximum(x, y) ==
    IF x.k = "nan" \/ y.k = "nan" THEN NaN
    ELSE IF FLess(x, y) THEN y ELSE x

RECURSIVE ISqrtIn(_, _, _)
ISqrtIn(n, lo, hi) ==
    IF lo >= hi THEN lo
    ELSE LET mid == (lo + hi + 1) \div 2
         IN IF mid * mid <= n THEN ISqrtIn(n, mid, hi) ELSE ISqrtIn(n, lo, mid - 1)

\* np.sqrt: nan (with a warning) below zero.
FSqrt(x) ==
    IF x.k = "nan" THEN NaN
    ELSE IF x.k = "inf" THEN (IF x.v > 0 THEN x ELSE NaN)
    ELSE IF x.v < 0 THEN NaN
    ELSE Fin(ISqrtIn(x.v * Scale, 0, x.v + Scale))

\* Piecewise-linear interpolation of the table (xs, ys) at n, xs increasing,
\* xs[1] <= n; constant beyond the last breakpoint.
RECURSIVE Interp(_, _, _, _)
Interp(xs, ys, n, i) ==
    IF i >= Len(xs) THEN ys[Len(ys)]
    ELSE IF n < xs[i + 1]
         THEN ys[i] + ((ys[i + 1] - ys[i]) * (n - xs[i])) \div (xs[i + 1] - xs[i])
    ELSE Interp(xs, ys, n, i + 1)

ErfX == <<0, 25, 50, 75, 100, 150, 200, 300>>
ErfY == <<0, 28, 52, 71, 84, 97, 100, 100>>

\* scipy.special.erf: odd, erf(+-inf) = +-1.
FErf(x) ==
    IF x.k = "nan" THEN NaN
    ELSE IF x.k = "inf" THEN Fin(x.v * Scale)
    ELSE Fin(Sgn(x.v) * Interp(ErfX, ErfY, Abs(x.v), 1))

ExpX == <<0, 25, 50, 100, 150, 200, 300, 500>>
ExpY == <<100, 78, 61, 37, 22, 14, 5, 0>>

\* np.exp; the argument in this program is -square(velf), never above zero.
FExp(x) ==
    IF x.k = "nan" THEN NaN
    ELSE IF x.k = "inf" THEN (IF x.v > 0 THEN x ELSE Fin(0))
    ELSE IF x.v <= 0 THEN Fin(Interp(ExpX, ExpY, -x.v, 1))
    ELSE FDiv(Fin(Scale), Fin(Interp(ExpX, ExpY, x.v, 1)))

\* ln of n / Scale for n > 0: ln(2^j * f) = j*ln 2 + ln f, ln f linear on [1, 2).
RECURSIVE LnPos(_)
LnPos(n) ==
    IF n >= 2 * Scale THEN 69 + LnPos(n \div 2)
    ELSE IF n < Scale THEN LnPos(2 * n) - 69
    ELSE ((n - Scale) * 69) \div Scale

\* np.log: -inf at zero, nan below zero (warnings, no exception).
FLog(x) ==
    IF x.k = "nan" THEN NaN
    ELSE IF x.k = "inf" THEN (IF x.v > 0 THEN x ELSE NaN)
    ELSE IF x.v = 0 THEN Inf(-1)
    ELSE IF x.v < 0 THEN NaN
    ELSE Fin(LnPos(x.v))

\* np.pi
Pi == Fin(314)

\* ------------------------------------------------------------------------
\* ndarrays: element-wise operations with scalar broadcasting

Arr(s) == [k |-> "arr", v |-> s]

\* Element i of an operand: of an array its i-th entry, of a scalar the scalar.
Elem(x, i) == IF x.k = "arr" THEN x.v[i] ELSE x

\* Index set of the result of a binary operation (one operand is an array).
AIdx(x, y) == IF x.k = "arr" THEN DOMAIN x.v ELSE DOMAIN y.v

AAdd(x, y) == Arr([i \in AIdx(x, y) |-> FAdd(Elem(x, i), Elem(y, i))])
ASub(x, y) == Arr([i \in AIdx(x, y) |-> FSub(Elem(x, i), Elem(y, i))])
AMul(x, y) == Arr([i \in AIdx(x, y) |-> FMul(Elem(x, i), Elem(y, i))])
ADiv(x, y) == Arr([i \in AIdx(x, y) |-> FDiv(Elem(x, i), Elem(y, i))])
AMaximum(x, y) == Arr([i \in AIdx(x, y) |-> FMaximum(Elem(x, i), Elem(y, i))])
ANeg(x) == Arr([i \in DOMAIN x.v |-> FNeg(x.v[i])])
ASquare(x) == Arr([i \in DOMAIN x.v |-> FSquare(x.v[i])])
ASqrt(x) == Arr([i \in DOMAIN x.v |-> FSqrt(x.v[i])])
AFabs(x) == Arr([i \in DOMAIN x.v |-> FFabs(x.v[i])])
AErf(x) == Arr([i \in DOMAIN x.v |-> FErf(x.v[i])])
AExp(x) == Arr([i \in DOMAIN x.v |-> FExp(x.v[i])])
ALog(x) == Arr([i \in DOMAIN x.v |-> FLog(x.v[i])])

\* Boolean arrays: x < y, x > y, a & b.
ALess(x, y) == [i \in AIdx(x, y) |-> FLess(Elem(x, i), Elem(y, i))]
AGreater(x, y) == [i \in AIdx(x, y) |-> FLess(Elem(y, i), Elem(x, i))]
BAnd(a, b) == [i \in DOMAIN a |-> a[i] /\ b[i]]

\* ------------------------------------------------------------------------
\* Array objects.  A machine state m is [h |-> heap, log |-> calls made]: the
\* heap is the sequence of the array objects alive, an object's id its index.

\* A new array object holding val; r is its id.
Alloc(m, val) == [m |-> [m EXCEPT !.h = Append(m.h, val)], r |-> Len(m.h) + 1]

\* Entering the function fn.
Enter(m, fn) == [m EXCEPT !.log = Append(m.log, fn)]

\* a[inds] = c: assignment in place, into the object a.
SetWhere(m, a, inds, c) ==
    [m EXCEPT !.h[a] = Arr([i \in DOMAIN m.h[a].v |->
                               IF inds[i] THEN c ELSE m.h[a].v[i]])]

\* a[inds] /= b[inds]: division in place, into the object a.
DivWhere(m, a, inds, b) ==
    [m EXCEPT !.h[a] = Arr([i \in DOMAIN m.h[a].v |->
                               IF inds[i] THEN FDiv(m.h[a].v[i], b.v[i])
                               ELSE m.h[a].v[i]])]

\* ------------------------------------------------------------------------
\* The helper formulas.  Array parameters are object ids, scalars are floats.

_vel_circ(m, m1, m2, sep) ==
    LET mtot == AAdd(m.h[m1], m.h[m2])
        mrat == ADiv(m.h[m2], m.h[m1])
        vels == ASqrt(ADiv(AMul(Fin(NWTG), mtot), m.h[sep]))
    IN Alloc(Enter(m, "_vel_circ"), ADiv(vels, AAdd(Fin(Scale), mrat)))

\* The value computed by _dvdt_full, from the arrays themselves.
\* erfs: the error-function term of a Maxwellian velocity distribution.
erfs(velf) ==
    AFabs(ASub(AErf(velf),
               AMul(ADiv(AMul(Fin(2 * Scale), velf), FSqrt(Pi)),
                    AExp(ANeg(ASquare(velf))))))

dvdt_full_value(mass_obj, dens, vel_obj, vdisp, coul) ==
    LET velf == ADiv(vel_obj, AMul(vdisp, FSqrt(Fin(2 * Scale))))
        const == FMul(FMul(Fin(-4 * Scale), Pi), FSquare(Fin(NWTG)))
        pref == ADiv(AMul(mass_obj, dens), ASquare(vel_obj))
    IN AMul(AMul(AMul(const, pref), erfs(velf)), coul)

\* Variant of _dvdt_full that reuses the buffer of dens for its result.
_dvdt_full_inplace(m, mass_obj, rads, dens, vel_obj, vdisp, coul) ==
    [m |-> [Enter(m, "_dvdt_full") EXCEPT !.h[dens] =
               dvdt_full_value(m.h[mass_obj], m.h[dens], m.h[vel_obj],
                               m.h[vdisp], coul)],
     r |-> dens]

\* _dvdt_full returns a new array; none of its arguments is written.
_dvdt_full(m, mass_obj, rads, dens, vel_obj, vdisp, coul) ==
    Alloc(Enter(m, "_dvdt_full"),
          dvdt_full_value(m.h[mass_obj], m.h[dens], m.h[vel_obj], m.h[vdisp], coul))

\* Variant of lcAtten without atten2.
lcAtten_first(mass_obj, rads, rads_hard, mstar, mass_stars) ==
    ADiv(AMul(ALog(ADiv(mass_stars, mstar)), rads_hard), rads)

\* lcAtten = np.maximum(atten1, atten2)
lcAtten(mass_obj, rads, rads_hard, mstar, mass_stars) ==
    LET numStars == ADiv(mass_stars, mstar)
        atten1 == ADiv(AMul(ALog(numStars), rads_hard), rads)
        atten2 == AMul(ASquare(ADiv(mass_obj, mass_stars)), numStars)
    IN AMaximum(atten1, atten2)

\* Variant of hard_inds with <= for <.
hard_inds_le(rads, rads_hard) == [i \in DOMAIN rads.v |-> ~FLess(rads_hard.v[i], rads.v[i])]

\* Variant of hard_inds that selects every element once any is hard.
hard_inds_any(rads, rads_hard) ==
    [i \in DOMAIN rads.v |-> \E j \in DOMAIN rads.v : FLess(rads.v[j], rads_hard.v[j])]

\* inds = (rads < rads_hard)
hard_inds(rads, rads_hard) == ALess(rads, rads_hard)

\* The attenuation of the hard separations, in place in the array dvdt_atten
\* of machine state m.
attenuate(m, dvdt_atten, mass_obj, rads, rads_hard, mstar, mass_stars) ==
    [m |-> DivWhere(m, dvdt_atten, hard_inds(m.h[rads], m.h[rads_hard]),
                    lcAtten(m.h[mass_obj], m.h[rads], m.h[rads_hard], mstar,
                            m.h[mass_stars])),
     r |-> dvdt_atten]

\* The rest of _dvdt_attenuated once full holds what _dvdt_full returned.
attenuate_full(full, mass_obj, rads, rads_hard, mstar, mass_stars) ==
    attenuate(full.m, full.r, mass_obj, rads, rads_hard, mstar, mass_stars)

_dvdt_attenuated(m, mass_obj, rads, dens, vel_obj, vdisp, coul, rads_hard, mstar, mass_stars) ==
    attenuate_full(_dvdt_full(Enter(m, "_dvdt_attenuated"), mass_obj, rads, dens,
                              vel_obj, vdisp, coul),
                   mass_obj, rads, rads_hard, mstar, mass_stars)

\* ------------------------------------------------------------------------
\* dvdt_to_dadt (imported): (separation, circular velocity, deceleration) to
\* (da/dt, timescale), element-wise: da/dt = 2 a (dv/dt) / v, tau = a / |da/dt|.
dadt_tau(d, rads) ==
    [m |-> Alloc(d.m, ADiv(d.m.h[rads], AFabs(d.m.h[d.r]))).m, r |-> d.r,
     tau |-> Len(d.m.h) + 1]

dvdt_to_dadt(m, rads, vels, dvdt) ==
    dadt_tau(Alloc(Enter(m, "dvdt_to_dadt"),
                   ADiv(AMul(AMul(Fin(2 * Scale), m.h[rads]), m.h[dvdt]), m.h[vels])),
             rads)

\* ------------------------------------------------------------------------
\* Dynamical_Friction.harden

\* The arguments of harden, in order; an argument's object id is its position.
ArgNames == <<"m1", "m2", "rads", "dens_gas", "dens_stars", "dens_dm", "vdisp",
              "rads_hard", "mass_stars", "rads_sg">>

Id(name) == CHOOSE i \in DOMAIN ArgNames : ArgNames[i] = name

\* Variant of select_mass_obj with primary and secondary exchanged.
select_mass_obj_swapped(m, which_bh) ==
    IF which_bh = 1 THEN [ok |-> TRUE, m |-> m, r |-> Id("m2")]
    ELSE IF which_bh = 2 THEN [ok |-> TRUE, m |-> m, r |-> Id("m1")]
    ELSE IF which_bh = 0
         THEN [ok |-> TRUE] @@ Alloc(m, AAdd(m.h[Id("m1")], m.h[Id("m2")]))
    ELSE [ok |-> FALSE, m |-> m, r |-> 0]

\* The if/elif chain on which_bh: the object mass (ok), or the ValueError.
select_mass_obj(m, which_bh) ==
    IF which_bh = 1 THEN [ok |-> TRUE, m |-> m, r |-> Id("m1")]
    ELSE IF which_bh = 2 THEN [ok |-> TRUE, m |-> m, r |-> Id("m2")]
    ELSE IF which_bh = 0
         THEN [ok |-> TRUE] @@ Alloc(m, AAdd(m.h[Id("m1")], m.h[Id("m2")]))
    ELSE [ok |-> FALSE, m |-> m, r |-> 0]

\* inds = (rads < rads_sg) & (rads_sg > 0.0)
gas_inds(rads, rads_sg) == BAnd(ALess(rads, rads_sg), AGreater(rads_sg, Fin(0)))

\* dvdt_g[inds] = 0.0, dvdt_g being what _dvdt_full returned.
gas_cut(dvdt_g) ==
    [m |-> SetWhere(dvdt_g.m, dvdt_g.r,
                    gas_inds(dvdt_g.m.h[Id("rads")], dvdt_g.m.h[Id("rads_sg")]),
                    Fin(0)),
     r |-> dvdt_g.r]

\* The deceleration by the gas before the cut; gas_vel is the new array
\* vdisp * GAS_VEL_SOFT.
gas_full(gas_vel, mass_obj, vcirc, coulomb) ==
    _dvdt_full(gas_vel.m, mass_obj, Id("rads"), Id("dens_gas"), vcirc, gas_vel.r,
               coulomb)

\* Variant of gas_stop that cuts when either flag is set.
gas_stop_either(sets, dvdt_g) ==
    IF sets.VISC_DISK_FLAG \/ sets.SELF_GRAV_RAD THEN gas_cut(dvdt_g) ELSE dvdt_g

\* The cut, made when both flags are set.
gas_stop(sets, dvdt_g) ==
    IF sets.VISC_DISK_FLAG /\ sets.SELF_GRAV_RAD THEN gas_cut(dvdt_g) ELSE dvdt_g

\* Variant of gas_drag that leaves out GAS_VEL_SOFT.
gas_drag_unsoftened(m, self, sets, mass_obj, vcirc, coulomb) ==
    gas_stop(sets, _dvdt_full(m, mass_obj, Id("rads"), Id("dens_gas"), vcirc,
                              Id("vdisp"), coulomb))

\* Gas drag: the full formula, then the cut where the disk takes over.
gas_drag(m, self, sets, mass_obj, vcirc, coulomb) ==
    gas_stop(sets,
        gas_full(Alloc(m, AMul(m.h[Id("vdisp")], self.GAS_VEL_SOFT)), mass_obj,
                 vcirc, coulomb))

\* The deceleration on the background density in the new array dens_other.
other_on(dens_other, self, mass_obj, vcirc, coulomb) ==
    IF self.DF_ATTENUATED
    THEN _dvdt_attenuated(dens_other.m, mass_obj, Id("rads"), dens_other.r, vcirc,
                          Id("vdisp"), coulomb, Id("rads_hard"),
                          FMul(Fin(MSTAR), Fin(MSOL)), Id("mass_stars"))
    ELSE _dvdt_full(dens_other.m, mass_obj, Id("rads"), dens_other.r, vcirc,
                    Id("vdisp"), coulomb)

\* Variant of other_drag that counts the gas in the background density.
other_drag_with_gas(m, self, mass_obj, vcirc, coulomb) ==
    other_on(Alloc(m, AAdd(AAdd(m.h[Id("dens_stars")], m.h[Id("dens_dm")]),
                           m.h[Id("dens_gas")])),
             self, mass_obj, vcirc, coulomb)

\* Drag of stars and dark matter: attenuated or full.
other_drag(m, self, mass_obj, vcirc, coulomb) ==
    other_on(Alloc(m, AAdd(m.h[Id("dens_stars")], m.h[Id("dens_dm")])),
             self, mass_obj, vcirc, coulomb)

Empty == Arr(<< >>)

\* The arrays the caller holds after the call.
ArgsOf(m) == [n \in {ArgNames[i] : i \in DOMAIN ArgNames} |-> m.h[Id(n)]]

\* harden is modelled statement by statement, each definition taking the
\* values of the locals assigned so far (array locals as object ids).  A call
\* yields what it returns or raises (status, dadt, dadt_g), its locals dvdt,
\* dvdt_g, mass_obj and vcirc at that point, the calls it made (log), and the
\* caller's arrays afterwards (args).

\* return dadt, dadt_g: cg is the second conversion's result.
harden_return(mass_obj, vcirc, dvdt_g, dvdt, dadt, cg) ==
    [out |-> [status |-> "ok", dadt |-> cg.m.h[dadt], dadt_g |-> cg.m.h[cg.r],
              dvdt |-> cg.m.h[dvdt], dvdt_g |-> cg.m.h[dvdt_g],
              mass_obj |-> cg.m.h[mass_obj], vcirc |-> cg.m.h[vcirc],
              log |-> cg.m.log],
     args |-> ArgsOf(cg.m)]

\* dadt_g, tau_g = dvdt_to_dadt(rads, vcirc, dvdt_g): c is the first
\* conversion's result.
harden_dadt_g(mass_obj, vcirc, dvdt_g, dvdt, c) ==
    harden_return(mass_obj, vcirc, dvdt_g, dvdt, c.r,
                  dvdt_to_dadt(c.m, Id("rads"), vcirc, dvdt_g))

\* dadt, tau = dvdt_to_dadt(rads, vcirc, dvdt): o is other_drag's result.
harden_dadt(mass_obj, vcirc, dvdt_g, o) ==
    harden_dadt_g(mass_obj, vcirc, dvdt_g, o.r,
                  dvdt_to_dadt(o.m, Id("rads"), vcirc, o.r))

\* The drag of stars and dark matter: g is gas_drag's result.
harden_other(self, mass_obj, vcirc, g) ==
    harden_dadt(mass_obj, vcirc, g.r,
                other_drag(g.m, self, mass_obj, vcirc, Fin(COULOMB_LOGARITHM)))

\* The gas drag: vc is _vel_circ's result.
harden_gas(self, sets, mass_obj, vc) ==
    harden_other(self, mass_obj, vc.r,
                 gas_drag(vc.m, self, sets, mass_obj, vc.r, Fin(COULOMB_LOGARITHM)))

\* After the choice of the object mass mo: the ValueError, or the rest.
harden_mass(self, sets, mo) ==
    IF ~mo.ok
    THEN [out |-> [status |-> "ValueError", dadt |-> Empty, dadt_g |-> Empty,
                   dvdt |-> Empty, dvdt_g |-> Empty, mass_obj |-> Empty,
                   vcirc |-> Empty, log |-> mo.m.log],
          args |-> ArgsOf(mo.m)]
    ELSE harden_gas(self, sets, mo.r,
                    _vel_circ(mo.m, Id("m1"), Id("m2"), Id("rads")))

harden(self, sets, a) ==
    harden_mass(self, sets,
        select_mass_obj([h |-> [i \in DOMAIN ArgNames |-> a[ArgNames[i]]],
                         log |-> << >>],
                        self.DF_WHICH_BH))

\* ------------------------------------------------------------------------
\* State

VARIABLES
    self,   \* the instance's attributes DF_WHICH_BH, DF_ATTENUATED, GAS_VEL_SOFT
    sets,   \* self.sets: the flags VISC_DISK_FLAG and SELF_GRAV_RAD
    args,   \* the caller's ten arrays, by argument name
    ret,    \* outcome of the last call of harden under the present attributes
    ncalls  \* calls of harden made under the present attributes

vars == <<self, sets, args, ret, ncalls>>

NoRet == [status |-> "none", dadt |-> Empty, dadt_g |-> Empty, dvdt |-> Empty,
          dvdt_g |-> Empty, mass_obj |-> Empty, vcirc |-> Empty, log |-> << >>]

ArraysOver(S) == {Arr(s) : s \in [1..NumBin -> {Fin(n) : n \in S}]}

\* Ensembles whose masses m1, separations, stellar masses and self-gravity
\* radii range over the given values (times Scale); the rest is fixed.
Ensembles(M1, R, MS, SG) ==
    {[m1 |-> a, m2 |-> b, rads |-> r, dens_gas |-> dg, dens_stars |-> ds,
      dens_dm |-> dd, vdisp |-> vd, rads_hard |-> rh, mass_stars |-> ms,
      rads_sg |-> sg] :
        a \in ArraysOver(M1), b \in ArraysOver({50}), r \in ArraysOver(R),
        dg \in ArraysOver({100}), ds \in ArraysOver({100}),
        dd \in ArraysOver({100}), vd \in ArraysOver({100}),
        rh \in ArraysOver({200}), ms \in ArraysOver(MS), sg \in ArraysOver(SG)}

WhichValues == {0, 1, 2, 3}
SoftValues == {Fin(Scale), Fin(2 * Scale)}

\* After construction: the class attributes; the settings object is given.
InitObject ==
    /\ self = [DF_WHICH_BH |-> 2, DF_ATTENUATED |-> TRUE, GAS_VEL_SOFT |-> Fin(Scale)]
    /\ sets \in [VISC_DISK_FLAG : BOOLEAN, SELF_GRAV_RAD : BOOLEAN]
    /\ ret = NoRet
    /\ ncalls = 0

\* Separations inside and outside both radii (rads_hard = rads_sg = 2), with
\* one star's worth or a hundred stars' worth of stellar mass.
Init == InitObject /\ args \in Ensembles({200}, {100, 300}, {60, 6000}, {200})

\* Self-gravity radii negative, zero and positive.
InitGas == InitObject /\ args \in Ensembles({200}, {100, 300}, {6000}, {-100, 0, 200})

\* Separations below, at and above the hardening radius.
InitStars == InitObject /\ args \in Ensembles({200}, {100, 200, 300}, {60, 6000}, {0})

\* Ensembles with degenerate members: no primary mass, no stars.
InitDegenerate == InitObject /\ args \in Ensembles({0, 200}, {100}, {0, 60}, {0})

\* Ensembles that differ in their separations alone.
InitSeparations == InitObject /\ args \in Ensembles({200}, {100, 300}, {6000}, {200})

SetWhichBH(w) ==
    /\ w # self.DF_WHICH_BH
    /\ self' = [self EXCEPT !.DF_WHICH_BH = w]
    /\ ret' = NoRet
    /\ ncalls' = 0
    /\ UNCHANGED <<sets, args>>

SetAttenuated(b) ==
    /\ b # self.DF_ATTENUATED
    /\ self' = [self EXCEPT !.DF_ATTENUATED = b]
    /\ ret' = NoRet
    /\ ncalls' = 0
    /\ UNCHANGED <<sets, args>>

SetGasVelSoft(g) ==
    /\ g # self.GAS_VEL_SOFT
    /\ self' = [self EXCEPT !.GAS_VEL_SOFT = g]
    /\ ret' = NoRet
    /\ ncalls' = 0
    /\ UNCHANGED <<sets, args>>

Harden ==
    /\ ncalls < MaxCalls
    /\ ncalls' = ncalls + 1
    /\ ret' = harden(self, sets, args).out
    /\ args' = harden(self, sets, args).args
    /\ UNCHANGED <<self, sets>>

Next ==
    \/ \E w \in WhichValues : SetWhichBH(w)
    \/ \E b \in BOOLEAN : SetAttenuated(b)
    \/ \E g \in SoftValues : SetGasVelSoft(g)
    \/ Harden

Spec == Init /\ [][Next]_vars
SpecGas == InitGas /\ [][Next]_vars
SpecStars == InitStars /\ [][Next]_vars
SpecDegenerate == InitDegenerate /\ [][Next]_vars
SpecSeparations == InitSeparations /\ [][Next]_vars

\* ------------------------------------------------------------------------
\* Properties

Idx == DOMAIN args.rads.v

\* The last call of harden returned a result.
Returned == ret.status = "ok"

BothFlags == sets.VISC_DISK_FLAG /\ sets.SELF_GRAV_RAD

Coulomb == Fin(COULOMB_LOGARITHM)

\* The full-formula gas deceleration for the present inputs.
GasFull ==
    dvdt_full_value(ret.mass_obj, args.dens_gas, ret.vcirc,
                    AMul(args.vdisp, self.GAS_VEL_SOFT), Coulomb)

\* The full-formula deceleration on the summed stellar and dark-matter density.
OtherFull ==
    dvdt_full_value(ret.mass_obj, AAdd(args.dens_stars, args.dens_dm), ret.vcirc,
                    args.vdisp, Coulomb)

\* |x| <= |y|, both numbers.
MagLeq(x, y) == x.k # "nan" /\ y.k # "nan" /\ ~FLess(FFabs(y), FFabs(x))

InHard(i) == FLess(args.rads.v[i], args.rads_hard.v[i])

\* C1: with both disk flags set, the gas deceleration is zero at every element
\* whose separation exceeds a positive self-gravity radius.
C1_GasZeroBeyondSelfGravity ==
    (Returned /\ BothFlags) =>
        \A i \in Idx :
            (FLess(args.rads_sg.v[i], args.rads.v[i]) /\ FLess(Fin(0), args.rads_sg.v[i]))
                => ret.dvdt_g.v[i] = Fin(0)

\* C2: the gas deceleration of an element keeps its full-formula value when
\* either disk flag is false or the element's self-gravity radius is not
\* positive.
C2_GasUntouched ==
    Returned =>
        \A i \in Idx :
            (~sets.VISC_DISK_FLAG \/ ~sets.SELF_GRAV_RAD
                \/ ~FLess(Fin(0), args.rads_sg.v[i]))
                => ret.dvdt_g.v[i] = GasFull.v[i]

\* One flag is off, and an element inside a positive self-gravity radius keeps
\* its (non-zero) full gas deceleration.
C2_Witness ==
    /\ Returned
    /\ sets.VISC_DISK_FLAG
    /\ ~sets.SELF_GRAV_RAD
    /\ \E i \in Idx :
        /\ FLess(args.rads.v[i], args.rads_sg.v[i])
        /\ ret.dvdt_g.v[i] = GasFull.v[i]
        /\ ret.dvdt_g.v[i] # Fin(0)

\* C3: the object mass follows DF_WHICH_BH (0: m1 + m2, 1: m1, 2: m2); any
\* other value raises ValueError before any helper is called, and nothing is
\* returned.
C3_MassPolicy ==
    /\ Returned =>
        /\ self.DF_WHICH_BH \in {0, 1, 2}
        /\ self.DF_WHICH_BH = 0 => ret.mass_obj = AAdd(args.m1, args.m2)
        /\ self.DF_WHICH_BH = 1 => ret.mass_obj = args.m1
        /\ self.DF_WHICH_BH = 2 => ret.mass_obj = args.m2
    /\ ret.status = "ValueError" =>
        /\ self.DF_WHICH_BH \notin {0, 1, 2}
        /\ ret.log = << >>
        /\ ret.dadt = Empty /\ ret.dadt_g = Empty
    /\ (ret.status # "none" /\ self.DF_WHICH_BH \notin {0, 1, 2})
        => ret.status = "ValueError"

\* harden was called with an unrecognized policy and raised.
C3_Witness == ret.status = "ValueError" /\ self.DF_WHICH_BH = 3

\* C4: inside the hard regime the attenuated deceleration is never larger in
\* magnitude than the full one.
C4_AttenuationReduces ==
    (Returned /\ self.DF_ATTENUATED) =>
        \A i \in Idx : InHard(i) => MagLeq(ret.dvdt.v[i], OtherFull.v[i])

\* C5: outside the hard regime (rads >= rads_hard, equality included) the
\* attenuated deceleration is the full one.
C5_FullOutsideHard ==
    (Returned /\ self.DF_ATTENUATED) =>
        \A i \in Idx : ~InHard(i) => ret.dvdt.v[i] = OtherFull.v[i]

\* An attenuated call with one element at rads = rads_hard left at the full
\* value and one inside the hard regime that was divided.
C5_Witness ==
    /\ Returned
    /\ self.DF_ATTENUATED
    /\ \E i, j \in Idx :
        /\ args.rads.v[i] = args.rads_hard.v[i]
        /\ ret.dvdt.v[i] = OtherFull.v[i]
        /\ InHard(j)
        /\ ret.dvdt.v[j] # OtherFull.v[j]

\* C6: a call of harden leaves the caller's arrays and the attributes as they
\* were, and a repeated call with the same inputs returns the same result.
C6_Pure ==
    [][ret'.status # "none" =>
          /\ args' = args
          /\ self' = self
          /\ sets' = sets
          /\ (ret.status # "none" => ret' = ret)]_vars

\* harden has been called twice in a row on the same inputs and returned.
C6_Witness == Returned /\ ncalls >= 2

AllFinite(i) ==
    /\ IsFinite(ret.dadt.v[i])
    /\ IsFinite(ret.dadt_g.v[i])

\* C7 as stated: a returned result is valid at every element or at none.
C7_NoPartialFailure ==
    Returned => ((\A i \in Idx : AllFinite(i)) \/ (\A i \in Idx : ~AllFinite(i)))

Positive(x) == FLess(Fin(0), x)

\* Element i has physical inputs: positive masses, separation and dispersion,
\* and stars where the attenuation is applied.
Regular(i) ==
    /\ Positive(args.m1.v[i])
    /\ Positive(args.m2.v[i])
    /\ Positive(args.rads.v[i])
    /\ Positive(args.vdisp.v[i])
    /\ (self.DF_ATTENUATED /\ InHard(i)) => Positive(args.mass_stars.v[i])

\* C7, amended: only an unrecognized DF_WHICH_BH fails the call as a whole;
\* otherwise a value is returned for every element, finite at every element
\* with physical inputs whatever the other elements are.
C7_ElementwiseValidity ==
    /\ ret.status = "ValueError" => self.DF_WHICH_BH \notin {0, 1, 2}
    /\ Returned =>
        /\ DOMAIN ret.dadt.v = Idx
        /\ DOMAIN ret.dadt_g.v = Idx
        /\ \A i \in Idx : Regular(i) => AllFinite(i)

\* A returned result with a finite element next to a degenerate one.
C7_Witness ==
    /\ Returned
    /\ \E i, j \in Idx :
        /\ Regular(i) /\ AllFinite(i)
        /\ ~Regular(j) /\ ~AllFinite(j)

\* The one-binary ensemble made of element i of every array.
Slice(a, i) == [n \in DOMAIN a |-> Arr(<<a[n].v[i]>>)]

\* C8: element i of each output is what harden returns for element i alone.
C8_Elementwise ==
    Returned =>
        \A i \in Idx :
            LET one == harden(self, sets, Slice(args, i)).out
            IN /\ ret.dadt.v[i] = one.dadt.v[1]
               /\ ret.dadt_g.v[i] = one.dadt_g.v[1]

\* An attenuated call on an ensemble whose members differ, with different
\* results.
C8_Witness ==
    /\ Returned
    /\ self.DF_ATTENUATED
    /\ \E i, j \in Idx :
        /\ InHard(i) /\ ~InHard(j)
        /\ ret.dadt.v[i] # ret.dadt.v[j]
        /\ ret.dadt_g.v[i] # ret.dadt_g.v[j]

\* The attenuated deceleration, from the full one.
OtherAttenuated ==
    LET att == lcAtten(ret.mass_obj, args.rads, args.rads_hard,
                       FMul(Fin(MSTAR), Fin(MSOL)), args.mass_stars)
    IN Arr([i \in Idx |-> IF InHard(i) THEN FDiv(OtherFull.v[i], att.v[i])
                          ELSE OtherFull.v[i]])

GasCut(i) ==
    /\ BothFlags
    /\ FLess(args.rads.v[i], args.rads_sg.v[i])
    /\ Positive(args.rads_sg.v[i])

\* C9: DF_ATTENUATED is True by default; the gas deceleration is the full
\* formula on dens_gas with dispersion vdisp * GAS_VEL_SOFT whatever
\* DF_ATTENUATED is; the stellar and dark-matter deceleration is on
\* dens_stars + dens_dm with vdisp, attenuated exactly when DF_ATTENUATED.
C9_Formulas ==
    /\ self.DF_ATTENUATED
    /\ [](Returned =>
            /\ \A i \in Idx :
                ret.dvdt_g.v[i] = IF GasCut(i) THEN Fin(0) ELSE GasFull.v[i]
            /\ ret.dvdt = IF self.DF_ATTENUATED THEN OtherAttenuated ELSE OtherFull)

\* An unattenuated call with softened gas dispersion: both decelerations are
\* full-formula values, and they differ.
C9_Witness ==
    /\ Returned
    /\ ~self.DF_ATTENUATED
    /\ self.GAS_VEL_SOFT = Fin(2 * Scale)
    /\ ~BothFlags
    /\ ret.dvdt_g = GasFull
    /\ ret.dvdt = OtherFull
    /\ ret.dvdt # OtherAttenuated
    /\ ret.dvdt # ret.dvdt_g

\* Array a with element i replaced by x.
WithElem(a, i, x) == Arr([a.v EXCEPT ![i] = x])

AltValues == {Fin(0), Fin(50), Fin(400)}

FlagValues == [VISC_DISK_FLAG : BOOLEAN, SELF_GRAV_RAD : BOOLEAN]

\* C10: the first output does not vary with dens_gas, rads_sg, GAS_VEL_SOFT or
\* the disk flags; the gas output does not vary with dens_stars, dens_dm,
\* rads_hard, mass_stars or DF_ATTENUATED.
C10_DisjointInputs ==
    Returned =>
        /\ \A n \in {"dens_gas", "rads_sg"} : \A i \in Idx : \A x \in AltValues :
            harden(self, sets, [args EXCEPT ![n] = WithElem(args[n], i, x)]).out.dadt
                = ret.dadt
        /\ \A g \in SoftValues :
            harden([self EXCEPT !.GAS_VEL_SOFT = g], sets, args).out.dadt = ret.dadt
        /\ \A f \in FlagValues : harden(self, f, args).out.dadt = ret.dadt
        /\ \A n \in {"dens_stars", "dens_dm", "rads_hard", "mass_stars"} :
            \A i \in Idx : \A x \in AltValues :
                harden(self, sets, [args EXCEPT ![n] = WithElem(args[n], i, x)]).out.dadt_g
                    = ret.dadt_g
        /\ \A b \in BOOLEAN :
            harden([self EXCEPT !.DF_ATTENUATED = b], sets, args).out.dadt_g = ret.dadt_g

\* A returned result whose two outputs differ, and whose first output does
\* change with the stellar density and its gas output with the gas density.
C10_Witness ==
    /\ Returned
    /\ ret.dadt # ret.dadt_g
    /\ \E i \in Idx :
        /\ harden(self, sets, [args EXCEPT !.dens_stars =
                WithElem(args.dens_stars, i, Fin(400))]).out.dadt # ret.dadt
        /\ harden(self, sets, [args EXCEPT !.dens_gas =
                WithElem(args.dens_gas, i, Fin(400))]).out.dadt_g # ret.dadt_g

====
